---- MODULE Spec2Model ----
(***************************************************************************)
(* Model of rupert.py: the Synapse class (settings loading, the Kafka      *)
(* consumer loop of listen, the one-shot producer of send, reload, stop).  *)
(* The Kafka client library is modelled by the calls made on its handles.  *)
(***************************************************************************)
EXTENDS Integers, Sequences, FiniteSets, TLC

(* ---------------- bounds ---------------- *)
MaxMsgs == 2       \* messages the broker delivers in one behaviour

(* ---------------- values ---------------- *)
None == "None"

\* the path the Synapse is constructed from (event() passes this literal)
SettingsPath == "/web/cfg/settings.json"

\* Two settings documents.  In the first kafka.connection and kafka.consumer
\* collide on group.id; the second declares no topic "out".
SettingsA ==
    [kafka |-> [connection |-> ("bootstrap.servers" :> "k1" @@ "group.id" :> "c"),
                consumer   |-> ("group.id" :> "g"),
                topics     |-> ("in" :> "a" @@ "out" :> "topic-out")]]

SettingsB ==
    [kafka |-> [connection |-> ("bootstrap.servers" :> "k2"),
                consumer   |-> ("group.id" :> "g2" @@ "auto.offset.reset" :> "earliest"),
                topics     |-> ("in" :> "b")]]

ValidFiles == {[kind |-> "json", doc |-> SettingsA], [kind |-> "json", doc |-> SettingsB]}

\* a file that open() cannot read, and one that json.loads() rejects
BadFiles == {[kind |-> "missing", doc |-> None], [kind |-> "malformed", doc |-> None]}

Files == ValidFiles \cup BadFiles

LogicalTopics == {"in", "out"}

Payloads == {"hello", "bye"}

\* broker records: msg.error() is None for a well-formed message
Msgs == {[error |-> None, value |-> "m1"],
         [error |-> None, value |-> "m2"],
         [error |-> "E1", value |-> ""]}

\* what producer.produce() can do: accept the message, or raise (BufferError
\* stands for the exceptions the docstring of send lists)
ProduceOutcomes == {"ok", "BufferError"}

\* process_event as defined by Synapse, or replaced by a subclass
Handlers == {"default", "override"}

VARIABLES
    file,           \* contents of the settings file on disk
    handler,        \* which process_event the instance has
    settings,       \* self.settings
    consumer_cfg,   \* self.consumer_cfg
    consumer,       \* self.consumer: NoConsumer for None, else the handle
    close_consumer, \* self.close_consumer
    pc,             \* position of the control flow inside listen
    producer,       \* the Producer handle of the last send call
    polled,         \* messages returned by consumer.poll, in order
    handled,        \* messages handed to process_event, in order
    returned,       \* number of process_event calls that have returned
    stdout,         \* what print() has written
    reloaded        \* outcome of the last reload() call, None before the first

vars == <<file, handler, settings, consumer_cfg, consumer, close_consumer, pc,
          producer, polled, handled, returned, stdout, reloaded>>

(* ---------------- pure helpers ---------------- *)

\* a dict union in which the left operand wins on a key collision
dict_or_left_wins(a, b) ==
    [k \in (DOMAIN a) \cup (DOMAIN b) |-> IF k \in DOMAIN a THEN a[k] ELSE b[k]]

\* Python's dict union  a | b
dict_or(a, b) ==
    [k \in (DOMAIN a) \cup (DOMAIN b) |-> IF k \in DOMAIN b THEN b[k] ELSE a[k]]

\* d[key] = value on a dict (adds or replaces one key)
dict_set(d, key, value) ==
    [k \in (DOMAIN d) \cup {key} |-> IF k = key THEN value ELSE d[k]]

\* open() raises OSError on an unreadable file, json.loads() raises
\* JSONDecodeError on malformed text; otherwise the parsed document
load_error(f) ==
    CASE f.kind = "missing"   -> "OSError"
      [] f.kind = "malformed" -> "JSONDecodeError"
      [] OTHER                -> None

\* a load that clears the settings before it reads the file
load_settings_clear_first(f, old) ==
    IF load_error(f) = None
    THEN f.doc
    ELSE [kafka |-> [connection |-> <<>>, consumer |-> <<>>, topics |-> <<>>]]

\* a load that updates the old settings with the keys of the file
load_settings_update(f, old) ==
    IF load_error(f) = None THEN dict_or(old, f.doc) ELSE old

\* __load_settings: the new value of self.settings (unchanged when it raises)
load_settings(f, old) ==
    IF load_error(f) = None THEN f.doc ELSE old

\* self.settings['kafka']['topics'][topic]: the value, or KeyError
topic_declared(s, topic) == topic \in DOMAIN s.kafka.topics

\* a lookup that passes the logical name on as the physical topic
topic_lookup_identity(s, topic) == topic

topic_lookup(s, topic) == s.kafka.topics[topic]

(* ---------------- the Kafka client handles ---------------- *)

\* A handle is modelled by what the client library was asked through it; arg,
\* payload and raised record the listen or send call that created the handle
\* and the exception that call ended with.

\* self.consumer = None
NoConsumer ==
    [open |-> FALSE, arg |-> None, cfg |-> <<>>, topic |-> None, closed |-> FALSE,
     polled |-> FALSE, raised |-> None]

\* Consumer(cfg) as created by listen(topic): open, not subscribed, never polled
Consumer(topic, cfg) ==
    [open |-> TRUE, arg |-> topic, cfg |-> cfg, topic |-> None, closed |-> FALSE,
     polled |-> FALSE, raised |-> None]

\* consumer.subscribe([physical])
subscribe(h, physical) == [h EXCEPT !.topic = physical]

\* no send call was made yet
NoProducer ==
    [open |-> FALSE, arg |-> None, payload |-> None, cfg |-> <<>>, ops |-> <<>>,
     raised |-> None]

\* Producer(cfg) as created by send(topic, event_bytes): nothing called on it yet
Producer(topic, event_bytes, cfg) ==
    [open |-> TRUE, arg |-> topic, payload |-> event_bytes, cfg |-> cfg, ops |-> <<>>,
     raised |-> None]

Call(name, topic, value) == [call |-> name, topic |-> topic, value |-> value]

\* the calls send makes on its producer once the topic is resolved:
\* produce, and if produce did not raise, poll(10000) and flush()
send_calls(physical, event_bytes, outcome) ==
    IF outcome = "ok"
    THEN << Call("produce", physical, event_bytes),
            Call("poll", None, None),
            Call("flush", None, None) >>
    ELSE << Call("produce", physical, event_bytes) >>

(* ---------------- construction ---------------- *)

\* __init__ on a readable settings file
Init ==
    /\ file \in ValidFiles
    /\ handler \in Handlers
    /\ settings = dict_set(load_settings(file, <<>>), "settings_file", SettingsPath)
    /\ consumer_cfg = dict_or(file.doc.kafka.connection, file.doc.kafka.consumer)
    /\ consumer = NoConsumer
    /\ close_consumer = FALSE
    /\ pc = "idle"
    /\ producer = NoProducer
    /\ polled = <<>>
    /\ handled = <<>>
    /\ returned = 0
    /\ stdout = <<>>
    /\ reloaded = None

(* ---------------- operations ---------------- *)

\* a listen that clears the shutdown flag when it starts
listen_resets_flag(topic) ==
    /\ pc \in {"idle", "exited"}
    /\ close_consumer' = FALSE
    /\ IF topic_declared(settings, topic)
       THEN /\ consumer' = subscribe(Consumer(topic, consumer_cfg),
                                     topic_lookup(settings, topic))
            /\ pc' = "check"
       ELSE /\ consumer' = [Consumer(topic, consumer_cfg) EXCEPT !.raised = "KeyError"]
            /\ pc' = pc
    /\ UNCHANGED <<file, handler, settings, consumer_cfg, producer,
                   polled, handled, returned, stdout, reloaded>>

\* listen(topic), up to the loop: Consumer(self.consumer_cfg), then the topic
\* lookup (KeyError when undeclared) and subscribe
listen(topic) ==
    /\ pc \in {"idle", "exited"}
    /\ IF topic_declared(settings, topic)
       THEN /\ consumer' = subscribe(Consumer(topic, consumer_cfg),
                                     topic_lookup(settings, topic))
            /\ pc' = "check"
       ELSE /\ consumer' = [Consumer(topic, consumer_cfg) EXCEPT !.raised = "KeyError"]
            /\ pc' = pc
    /\ UNCHANGED <<file, handler, settings, consumer_cfg, close_consumer, producer,
                   polled, handled, returned, stdout, reloaded>>

\* a listen that tests the flag once, before the loop, and not inside it
listen_check_before_loop ==
    /\ pc = "check"
    /\ IF close_consumer /\ ~consumer.polled
       THEN /\ consumer' = [consumer EXCEPT !.closed = TRUE, !.raised = "SystemExit"]
            /\ pc' = "exited"
       ELSE /\ pc' = "poll"
            /\ UNCHANGED consumer
    /\ UNCHANGED <<file, handler, settings, consumer_cfg, close_consumer,
                   producer, polled, handled, returned, stdout, reloaded>>

\* a loop that tests the flag only after its first poll
listen_check_after_poll ==
    /\ pc = "check"
    /\ IF close_consumer /\ consumer.polled
       THEN /\ consumer' = [consumer EXCEPT !.closed = TRUE, !.raised = "SystemExit"]
            /\ pc' = "exited"
       ELSE /\ pc' = "poll"
            /\ UNCHANGED consumer
    /\ UNCHANGED <<file, handler, settings, consumer_cfg, close_consumer,
                   producer, polled, handled, returned, stdout, reloaded>>

\* top of the while loop: if self.close_consumer: consumer.close(); sys.exit()
listen_check ==
    /\ pc = "check"
    /\ IF close_consumer
       THEN /\ consumer' = [consumer EXCEPT !.closed = TRUE, !.raised = "SystemExit"]
            /\ pc' = "exited"
       ELSE /\ pc' = "poll"
            /\ UNCHANGED consumer
    /\ UNCHANGED <<file, handler, settings, consumer_cfg, close_consumer,
                   producer, polled, handled, returned, stdout, reloaded>>

\* msg = self.consumer.poll(1.0) returned None: pass
poll_none ==
    /\ pc' = "check"
    /\ UNCHANGED <<polled, handled, stdout>>

\* a dispatch that keeps the newest message first
poll_msg_newest_first(m) ==
    /\ polled' = Append(polled, m)
    /\ IF m.error # None
       THEN /\ stdout' = Append(stdout, m.error)
            /\ pc' = "check"
            /\ UNCHANGED handled
       ELSE /\ handled' = <<m>> \o handled
            /\ pc' = "handling"
            /\ UNCHANGED stdout

\* a dispatch without the msg.error() branch
poll_msg_no_error_branch(m) ==
    /\ polled' = Append(polled, m)
    /\ handled' = Append(handled, m)
    /\ pc' = "handling"
    /\ UNCHANGED stdout

\* poll returned a message: print its error, or call process_event(msg)
poll_msg(m) ==
    /\ polled' = Append(polled, m)
    /\ IF m.error # None
       THEN /\ stdout' = Append(stdout, m.error)
            /\ pc' = "check"
            /\ UNCHANGED handled
       ELSE /\ handled' = Append(handled, m)
            /\ pc' = "handling"
            /\ UNCHANGED stdout

\* one poll of the loop and the dispatch of what it returned
listen_poll ==
    /\ pc = "poll"
    /\ consumer' = [consumer EXCEPT !.polled = TRUE]
    /\ \/ poll_none
       \/ /\ Len(polled) < MaxMsgs
          /\ \E m \in Msgs : poll_msg(m)
    /\ UNCHANGED <<file, handler, settings, consumer_cfg, close_consumer,
                   producer, returned, reloaded>>

\* a loop that polls again right after the handler returns, without going
\* back to the flag check
process_event_then_poll ==
    /\ pc = "handling"
    /\ IF handler = "default"
       THEN /\ stdout' = Append(stdout, handled[Len(handled)].value)
            /\ close_consumer' = TRUE
       ELSE UNCHANGED <<stdout, close_consumer>>
    /\ returned' = returned + 1
    /\ pc' = "poll"
    /\ UNCHANGED <<file, handler, settings, consumer_cfg, consumer,
                   producer, polled, handled, reloaded>>

\* a default process_event without the final self.stop()
process_event_without_stop ==
    /\ pc = "handling"
    /\ IF handler = "default"
       THEN stdout' = Append(stdout, handled[Len(handled)].value)
       ELSE UNCHANGED stdout
    /\ returned' = returned + 1
    /\ pc' = "check"
    /\ UNCHANGED <<file, handler, settings, consumer_cfg, consumer, close_consumer,
                   producer, polled, handled, reloaded>>

\* process_event(msg) running to its return.  The default prints the decoded
\* value, sleeps and calls self.stop(); an overriding subclass does not.
process_event ==
    /\ pc = "handling"
    /\ IF handler = "default"
       THEN /\ stdout' = Append(stdout, handled[Len(handled)].value)
            /\ close_consumer' = TRUE
       ELSE UNCHANGED <<stdout, close_consumer>>
    /\ returned' = returned + 1
    /\ pc' = "check"
    /\ UNCHANGED <<file, handler, settings, consumer_cfg, consumer,
                   producer, polled, handled, reloaded>>

\* a reload that keeps settings that are already loaded
reload_cached ==
    /\ settings' = IF settings # <<>> THEN settings ELSE load_settings(file, settings)
    /\ reloaded' = IF load_error(file) = None THEN "ok" ELSE load_error(file)
    /\ UNCHANGED <<file, handler, consumer_cfg, consumer, close_consumer, pc,
                   producer, polled, handled, returned, stdout>>

\* a reload that closes the open consumer so that it is opened again
reload_closes_consumer ==
    /\ settings' = load_settings(file, settings)
    /\ reloaded' = IF load_error(file) = None THEN "ok" ELSE load_error(file)
    /\ consumer' = [consumer EXCEPT !.closed = consumer.open]
    /\ UNCHANGED <<file, handler, consumer_cfg, close_consumer, pc,
                   producer, polled, handled, returned, stdout>>

\* reload(): __load_settings() again
reload ==
    /\ settings' = load_settings(file, settings)
    /\ reloaded' = IF load_error(file) = None THEN "ok" ELSE load_error(file)
    /\ UNCHANGED <<file, handler, consumer_cfg, consumer, close_consumer, pc,
                   producer, polled, handled, returned, stdout>>

\* a send that keeps one producer and uses it again in later calls
send_pooled(topic, event_bytes) ==
    /\ LET p == IF producer.open
                THEN [producer EXCEPT !.arg = topic, !.payload = event_bytes,
                                      !.raised = None]
                ELSE Producer(topic, event_bytes, settings.kafka.connection)
       IN
       IF topic_declared(settings, topic)
       THEN \E o \in ProduceOutcomes :
              producer' = [p EXCEPT
                     !.ops = p.ops \o
                             send_calls(topic_lookup(settings, topic), event_bytes, o),
                     !.raised = IF o = "ok" THEN None ELSE o]
       ELSE producer' = [p EXCEPT !.raised = "KeyError"]
    /\ Len(producer.ops) < 6
    /\ UNCHANGED <<file, handler, settings, consumer_cfg, consumer, close_consumer,
                   pc, polled, handled, returned, stdout, reloaded>>

\* a send that ends with self.stop()
send_then_stop(topic, event_bytes) ==
    /\ LET p == Producer(topic, event_bytes, settings.kafka.connection) IN
       IF topic_declared(settings, topic)
       THEN \E o \in ProduceOutcomes :
              producer' = [p EXCEPT
                     !.ops = send_calls(topic_lookup(settings, topic), event_bytes, o),
                     !.raised = IF o = "ok" THEN None ELSE o]
       ELSE producer' = [p EXCEPT !.raised = "KeyError"]
    /\ close_consumer' = TRUE
    /\ UNCHANGED <<file, handler, settings, consumer_cfg, consumer,
                   pc, polled, handled, returned, stdout, reloaded>>

\* send(topic, event_bytes): Producer(connection), then the topic lookup
\* (KeyError when undeclared), produce, poll, flush
send(topic, event_bytes) ==
    /\ LET p == Producer(topic, event_bytes, settings.kafka.connection) IN
       IF topic_declared(settings, topic)
       THEN \E o \in ProduceOutcomes :
              producer' = [p EXCEPT
                     !.ops = send_calls(topic_lookup(settings, topic), event_bytes, o),
                     !.raised = IF o = "ok" THEN None ELSE o]
       ELSE producer' = [p EXCEPT !.raised = "KeyError"]
    /\ UNCHANGED <<file, handler, settings, consumer_cfg, consumer, close_consumer,
                   pc, polled, handled, returned, stdout, reloaded>>

\* a stop that closes the consumer itself
stop_and_close ==
    /\ close_consumer' = TRUE
    /\ consumer' = [consumer EXCEPT !.closed = consumer.open]
    /\ UNCHANGED <<file, handler, settings, consumer_cfg, pc,
                   producer, polled, handled, returned, stdout, reloaded>>

\* stop(): self.close_consumer = True
stop ==
    /\ close_consumer' = TRUE
    /\ UNCHANGED <<file, handler, settings, consumer_cfg, consumer, pc,
                   producer, polled, handled, returned, stdout, reloaded>>

\* the settings file is rewritten, removed or corrupted on disk
write_file ==
    /\ file' \in Files \ {file}
    /\ UNCHANGED <<handler, settings, consumer_cfg, consumer, close_consumer, pc,
                   producer, polled, handled, returned, stdout, reloaded>>

Next ==
    \/ \E t \in LogicalTopics : listen(t)
    \/ listen_check
    \/ listen_poll
    \/ process_event
    \/ reload
    \/ \E t \in LogicalTopics, b \in Payloads : send(t, b)
    \/ stop
    \/ write_file

Spec == Init /\ [][Next]_vars

\* the methods of one Synapse while the settings file stays as it is on disk
FairNext ==
    \/ \E t \in LogicalTopics : listen(t)
    \/ listen_check
    \/ listen_poll
    \/ process_event
    \/ reload
    \/ \E t \in LogicalTopics, b \in Payloads : send(t, b)
    \/ stop

\* The thread that runs listen keeps running: the flag check is taken, every
\* poll returns within its timeout and every process_event call returns.
FairSpec ==
    /\ Init
    /\ [][FairNext]_vars
    /\ WF_vars(listen_check)
    /\ WF_vars(listen_poll)
    /\ WF_vars(process_event)

(* ---------------- steps, as seen from outside ---------------- *)

\* a listen call has just created a Consumer handle
ListenStep == pc \in {"idle", "exited"} /\ consumer' # consumer

\* a send call has just created a Producer handle
SendStep == producer' # producer

\* consumer.poll has just returned
PollStep == pc = "poll" /\ pc' # "poll"

IsWellFormed(m) == m.error = None

(* ---------------- claims ---------------- *)

\* C1: listen(t) subscribes to exactly kafka.topics[t] and send(t, payload)
\* produces to exactly kafka.topics[t] with the payload it was given; for a
\* name t that kafka.topics does not declare both fail with the missing-key
\* error (KeyError).
C1_TopicResolution ==
    [][ /\ ListenStep =>
             LET t == consumer'.arg IN
             IF t \in DOMAIN settings.kafka.topics
             THEN /\ consumer'.topic = settings.kafka.topics[t]
                  /\ consumer'.raised = None
                  /\ pc' = "check"
             ELSE /\ consumer'.raised = "KeyError"
                  /\ consumer'.topic = None
        /\ SendStep =>
             LET t == producer'.arg IN
             IF t \in DOMAIN settings.kafka.topics
             THEN /\ producer'.raised # "KeyError"
                  /\ producer'.ops # <<>>
                  /\ producer'.ops[1] =
                        Call("produce", settings.kafka.topics[t], producer'.payload)
                  /\ \A i \in DOMAIN producer'.ops :
                        producer'.ops[i].call = "produce" => i = 1
             ELSE producer'.raised = "KeyError"
      ]_vars

\* send("out", "hello") was produced to "topic-out", and a listen on an
\* undeclared name has failed
C1_Witness ==
    /\ producer.arg = "out"
    /\ producer.ops # <<>>
    /\ producer.ops[1] = Call("produce", "topic-out", "hello")
    /\ consumer.raised = "KeyError"

\* C2: after construction the merged consumer configuration has every key of
\* kafka.connection and of kafka.consumer, and on a key of both it has the
\* kafka.consumer value.
C2_MergedConsumerConfig ==
    reloaded = None =>
        LET connection == settings.kafka.connection
            overlay == settings.kafka.consumer
        IN  /\ (DOMAIN connection) \cup (DOMAIN overlay) \subseteq DOMAIN consumer_cfg
            /\ \A k \in (DOMAIN connection) \cap (DOMAIN overlay) :
                  consumer_cfg[k] = overlay[k]

\* constructed from settings whose two maps collide on group.id with
\* different values
C2_Witness ==
    /\ reloaded = None
    /\ "group.id" \in (DOMAIN settings.kafka.connection) \cap (DOMAIN settings.kafka.consumer)
    /\ settings.kafka.connection["group.id"] # settings.kafka.consumer["group.id"]
    /\ consumer_cfg["group.id"] = "g"

\* C3: when the shutdown flag is already set at the first loop check of a
\* listen call (stop() was called before the loop polled, possibly before
\* listen was entered), that check closes the consumer and ends listen: no
\* poll is issued on the handle and no message is handed to process_event.
C3_StopBeforeFirstPoll ==
    [][ (pc = "check" /\ close_consumer /\ ~consumer.polled /\ pc' # pc) =>
           /\ pc' = "exited"
           /\ consumer'.closed
           /\ ~consumer'.polled
           /\ polled' = polled
           /\ handled' = handled
      ]_vars

\* a listen call that ended at its first loop check
C3_Witness ==
    /\ pc = "exited"
    /\ consumer.closed
    /\ ~consumer.polled
    /\ consumer.topic # None

\* C4: a polled message that carries an error is never handed to
\* process_event; its error is printed, the consumer stays open and the loop
\* goes on to its next iteration.
C4_ErrorMessageNotForwarded ==
    /\ [](\A i \in DOMAIN handled : handled[i].error = None)
    /\ [][ (PollStep /\ polled' # polled /\ polled'[Len(polled')].error # None) =>
              /\ handled' = handled
              /\ stdout' = Append(stdout, polled'[Len(polled')].error)
              /\ ~consumer'.closed
              /\ pc' = "check"
         ]_vars

\* the loop has just polled an error message
C4_Witness ==
    /\ polled # <<>>
    /\ polled[Len(polled)].error # None
    /\ stdout # <<>>
    /\ stdout[Len(stdout)] = polled[Len(polled)].error
    /\ pc = "check"
    /\ ~consumer.closed

\* C5: every polled message without an error is handed to process_event
\* exactly once and in the order the polls returned them, and a handler call
\* has returned before the loop polls again.
C5_HandledOnceInOrder ==
    /\ handled = SelectSeq(polled, IsWellFormed)
    /\ pc = "handling" => returned = Len(handled) - 1
    /\ pc # "handling" => returned = Len(handled)

\* two different well-formed messages were handled, one after the other
C5_Witness ==
    /\ Len(handled) = 2
    /\ handled[1] # handled[2]
    /\ returned = 2

\* C6 (as claimed): a send on an undeclared logical topic opens no producer
\* handle; it only fails with the missing-key error.
C6_NoProducerForUnknownTopic ==
    ~(producer.open /\ producer.raised = "KeyError")

\* C7: once the settings file's kafka.topics entry has changed and reload()
\* was called, listen(name) subscribes to the file's new entry; without the
\* reload the in-memory entry is the old one and listen subscribes to that.
C7_ReloadedTopicUsed ==
    [][ /\ (reloaded' = "ok" /\ (reloaded # "ok" \/ settings' # settings)) =>
             settings'.kafka.topics = file.doc.kafka.topics
        /\ settings'.kafka.topics # settings.kafka.topics =>
             (reloaded' = "ok" /\ file' = file)
        /\ file' # file => settings' = settings
        /\ (ListenStep /\ consumer'.raised = None) =>
             /\ consumer'.arg \in DOMAIN settings.kafka.topics
             /\ consumer'.topic = settings.kafka.topics[consumer'.arg]
      ]_vars

\* constructed while topics.in was "a", reloaded after it became "b", and
\* listen("in") has subscribed to "b"
C7_Witness ==
    /\ consumer_cfg = dict_or(SettingsA.kafka.connection, SettingsA.kafka.consumer)
    /\ reloaded = "ok"
    /\ consumer.arg = "in"
    /\ consumer.topic = "b"

\* C8 (as claimed): after every successful load, at construction or by
\* reload(), the settings mapping has the key settings_file with the path
\* the Synapse was constructed from.
C8_SettingsFileEchoed ==
    /\ "settings_file" \in DOMAIN settings
    /\ settings["settings_file"] = SettingsPath

\* C9 (as claimed): a listen call opens its consumer with the merge of the
\* kafka.connection and kafka.consumer maps of the settings in memory at that
\* moment, so after a reload with the reloaded ones.
C9_ListenUsesReloadedConfig ==
    [][ ListenStep =>
          consumer'.cfg = dict_or(settings.kafka.connection, settings.kafka.consumer)
      ]_vars

\* C10: a send call, whatever its outcome and whatever the position of the
\* listen loop, leaves the consumer handle, the shutdown flag, the settings,
\* the merged consumer configuration and the loop position as they were.
C10_SendLeavesLifecycle ==
    [][ SendStep =>
          UNCHANGED <<consumer, close_consumer, settings, consumer_cfg, pc>>
      ]_vars

\* a failed send was made while process_event was running in the loop of an
\* open consumer
C10_Witness ==
    /\ producer.open
    /\ producer.raised = "BufferError"
    /\ pc = "handling"
    /\ ~consumer.closed
    /\ ~close_consumer

Listening == pc \in {"check", "poll", "handling"}

\* C13: if the shutdown flag is set while the loop of listen runs, then, every
\* poll and every process_event call returning, the loop reaches its flag
\* check, closes the consumer and ends listen.
C13_StopEventuallyCloses ==
    (close_consumer /\ Listening) ~> (pc = "exited" /\ consumer.closed)

\* the flag was set during a handler call, and the loop has ended since
C13_Witness ==
    /\ pc = "exited"
    /\ consumer.closed
    /\ consumer.polled
    /\ handler = "override"
    /\ returned = Len(handled)
    /\ handled # <<>>

\* C14: with the default process_event at most one message is handed to the
\* handler: its return sets the shutdown flag, and the loop then ends at its
\* next flag check without another poll; a poll that returns nothing or an
\* error message neither sets the flag nor ends the loop.
C14_DefaultHandlerStopsAfterOne ==
    /\ [](handler = "default" =>
            /\ Len(handled) <= 1
            /\ returned >= 1 => (close_consumer /\ pc \in {"check", "exited"}))
    /\ [][ /\ (handler = "default" /\ returned >= 1 /\ pc = "check" /\ pc' # pc) =>
                (pc' = "exited" /\ consumer'.closed /\ polled' = polled)
           /\ (PollStep /\ handled' = handled) =>
                (close_consumer' = close_consumer /\ pc' = "check" /\ ~consumer'.closed)
        ]_vars

\* the default handler got the one message that followed an error message,
\* and the loop has ended
C14_Witness ==
    /\ handler = "default"
    /\ Len(polled) = 2
    /\ polled[1].error # None
    /\ Len(handled) = 1
    /\ pc = "exited"
    /\ consumer.closed

\* the three calls of a complete send, in their order
CompleteSend(physical, payload) ==
    << Call("produce", physical, payload),
       Call("poll", None, None),
       Call("flush", None, None) >>

\* C15 (as claimed): every send call on a declared topic makes, on a producer
\* handle of its own, exactly one enqueue of the payload, then the wait for
\* delivery callbacks, then the flush.
C15_SendAlwaysEnqueuesWaitsFlushes ==
    [][ (SendStep /\ producer'.arg \in DOMAIN settings.kafka.topics) =>
          producer'.ops =
              CompleteSend(settings.kafka.topics[producer'.arg], producer'.payload)
      ]_vars

\* C15 (amended): every send call on a declared topic opens a producer handle
\* of its own, configured with kafka.connection alone, and makes on it exactly
\* one enqueue of the payload; when the enqueue does not raise, the wait and
\* then the flush follow and nothing else; when it raises, nothing follows.
C15_SendOwnProducerInOrder ==
    [][ (SendStep /\ producer'.arg \in DOMAIN settings.kafka.topics) =>
          LET physical == settings.kafka.topics[producer'.arg] IN
          /\ producer'.open
          /\ producer'.cfg = settings.kafka.connection
          /\ IF producer'.raised = None
             THEN producer'.ops = CompleteSend(physical, producer'.payload)
             ELSE producer'.ops = << Call("produce", physical, producer'.payload) >>
      ]_vars

\* a complete send was made whose producer configuration lacks a key that
\* the consumer configuration has
C15_Witness ==
    /\ producer.open
    /\ producer.raised = None
    /\ Len(producer.ops) = 3
    /\ producer.ops[3].call = "flush"
    /\ "auto.offset.reset" \in DOMAIN consumer_cfg
    /\ "auto.offset.reset" \notin DOMAIN producer.cfg

\* a reload() call has just returned or raised
ReloadStep == reloaded' # reloaded \/ settings' # settings

\* C16: reload() leaves an open consumer handle, with the configuration it was
\* opened with and its subscription, the merged consumer configuration, the
\* shutdown flag and the loop as they are; when it succeeds the settings are
\* exactly the document of the file, no key of the old settings is kept.
C16_ReloadReplacesSettingsOnly ==
    [][ ReloadStep =>
          /\ UNCHANGED <<consumer, consumer_cfg, close_consumer, pc>>
          /\ reloaded' = "ok" => settings' = file.doc
      ]_vars

\* reload() succeeded during a handler call: the settings are those of another
\* file than the one the open consumer was configured from
C16_Witness ==
    /\ reloaded = "ok"
    /\ pc = "handling"
    /\ consumer.open
    /\ ~consumer.closed
    /\ consumer.cfg # dict_or(settings.kafka.connection, settings.kafka.consumer)
    /\ "settings_file" \notin DOMAIN settings

\* C17: when reload() fails because the file is missing, unreadable or not
\* valid JSON, the error reaches the caller and the settings, the merged
\* consumer configuration, the consumer handle and the shutdown flag are what
\* they were before the call.
C17_FailedReloadChangesNothing ==
    [][ (ReloadStep /\ load_error(file) # None) =>
          /\ reloaded' = load_error(file)
          /\ UNCHANGED <<settings, consumer_cfg, consumer, close_consumer, pc>>
      ]_vars

\* reload() has failed on a malformed file after a listen call, and the
\* settings still declare their topics
C17_Witness ==
    /\ reloaded = "JSONDecodeError"
    /\ consumer.open
    /\ "in" \in DOMAIN settings.kafka.topics
    /\ "settings_file" \in DOMAIN settings

\* C18: a listen call on a logical topic that kafka.topics does not declare
\* fails and leaves no consumer handle opened, no subscription and no poll.
C18_NoConsumerAfterFailedListen ==
    consumer.raised = "KeyError" =>
        /\ ~consumer.open
        /\ consumer.topic = None
        /\ ~consumer.polled

\* the loop is not inside an iteration that can still poll or hand a message
NotPolling == pc \in {"idle", "exited", "check"}

\* C19: once the shutdown flag is true no operation sets it back to false, and
\* from then on, outside an iteration that was already running, no poll is
\* made and no message is handed to process_event, also when listen is called
\* again after the loop has exited.
C19_StoppedIsTerminal ==
    [][ /\ close_consumer => close_consumer'
        /\ (close_consumer /\ NotPolling) =>
              /\ pc' \in {"idle", "exited", "check"}
              /\ polled' = polled
              /\ handled' = handled
      ]_vars

\* listen was called again after the loop had polled, stopped and exited: the
\* new consumer handle was closed without a single poll
C19_Witness ==
    /\ polled # <<>>
    /\ pc = "exited"
    /\ consumer.closed
    /\ ~consumer.polled

\* the polls the running iteration of the loop can still make
Rem(p) == IF p = "poll" THEN 1 ELSE 0

\* the messages handed to process_event by the step
Handed == Len(handled') - Len(handled)

\* C20: under every interleaving of stop() with the flag check, the poll and
\* process_event, once stop() has returned no iteration of the loop is started
\* (the flag check never goes on to a poll), and at most one more message, that
\* of the poll of the iteration that had already passed its flag check, is
\* handed to process_event before the consumer is closed.
C20_NoIterationAfterStop ==
    [][ close_consumer =>
          /\ pc = "check" => pc' # "poll"
          /\ Handed <= Rem(pc)
          /\ Rem(pc') <= Rem(pc) - Handed
          /\ pc = "handling" => pc' \in {"handling", "check"}
          /\ (pc = "check" /\ pc' # "check") => (pc' = "exited" /\ consumer'.closed)
      ]_vars

\* stop() has returned between the flag check and the poll of the second
\* iteration of a loop whose handler does not stop: that poll is still made
C20_Witness ==
    /\ handler = "override"
    /\ close_consumer
    /\ pc = "poll"
    /\ consumer.polled
    /\ Len(handled) = 1
    /\ returned = 1
====
